---- MODULE Spec2Model ----
(***************************************************************************)
(* A model of bkmr's interactive selection loop and batch dispatcher       *)
(* (src/bkmr/src/process.rs): process(), parse(), open_bms / delete_bms /  *)
(* edit_bms / print_ids and do_sth_with_bms.                               *)
(*                                                                         *)
(* An input line is a sequence of one-character strings.  A token is a     *)
(* sequence of one-character strings.  The result list bms is a sequence   *)
(* of Bookmark records [id, URL]; the Store maps the live ids to records.  *)
(***************************************************************************)
EXTENDS Integers, Sequences, FiniteSets, TLC

VARIABLES
    bms,      \* process(bms): the result list the session consumes
    store,    \* the Store: live id -> [URL, rev]; rev counts the updates
    pc,       \* position of process(): AwaitingInput, Dispatching, Waiting, Done, Panicked
    first,    \* tokens[0] of the line read last (<<>> when the token list was empty)
    act,      \* the action dispatched: none, print, delete, edit, open
    ids,      \* the Vec<i32> handed to do_sth_with_bms (or to print_ids)
    idx,      \* 1-based position of the for loop of do_sth_with_bms in ids
    calls,    \* the invocations of do_sth so far, see Call
    result,   \* what the dispatched function returned to process(): none, ok, err
    child,    \* the shell child of _open_bm: none, running
    out,      \* what print_ids printed, as characters
    numeric,  \* ensure_int_vector on the line read last: some, none, or unused
    ntok,     \* tokens.len() of the line that was dispatched (0 before)
    argv,     \* the command line main() was started with
    cands,    \* what the Store returns for the query of a search, in its order
    conn,     \* Store connections main() has opened itself (Dal::new in main.rs)
    fetched,  \* what get_bookmark_by_id returned to main(), in order
    exit      \* how the program ended: running, 0, 1, panic

\* what process() and the dispatcher work on
pvars == <<bms, store, pc, first, act, ids, idx, calls, result, child, out, numeric, ntok>>

\* what only main() works on
mvars == <<argv, cands, conn, fetched, exit>>

vars == <<bms, store, pc, first, act, ids, idx, calls, result, child, out, numeric, ntok,
          argv, cands, conn, fetched, exit>>

\* ------------------------------------------------------------------ bounds
\* Bookmarks the Store holds at the start: ids 1..MaxId.
MaxId == 3
\* Longest result list.
MaxBms == 2
\* Most tokens after the first token of an input line.
MaxArgs == 3

\* ------------------------------------------------------------ characters
Digits == <<"0", "1", "2", "3", "4", "5", "6", "7", "8", "9">>

IsDigit(c) == \E k \in 1..Len(Digits) : Digits[k] = c

DigitVal(c) == (CHOOSE k \in 1..Len(Digits) : Digits[k] = c) - 1

\* char::is_whitespace, on the characters the input lines are made of
IsWhitespace(c) == c \in {" ", "\t", "\n", "\r"}

\* str::to_lowercase, on the characters the input lines are made of
ToLower(c) ==
    CASE c = "P" -> "p"
      [] c = "D" -> "d"
      [] c = "E" -> "e"
      [] c = "H" -> "h"
      [] c = "Q" -> "q"
      [] c = "X" -> "x"
      [] OTHER -> c

\* ------------------------------------------------------------------ parse
\* str::trim: drop leading and trailing whitespace
RECURSIVE TrimStart(_)
TrimStart(s) ==
    IF s # <<>> /\ IsWhitespace(Head(s)) THEN TrimStart(Tail(s)) ELSE s

RECURSIVE TrimEnd(_)
TrimEnd(s) ==
    IF s # <<>> /\ IsWhitespace(s[Len(s)]) THEN TrimEnd(SubSeq(s, 1, Len(s) - 1)) ELSE s

Trim(s) == TrimEnd(TrimStart(s))

\* str::replace(",", "")
RemoveCommas(s) == SelectSeq(s, LAMBDA c : c # ",")

Lowercase(s) == [k \in 1..Len(s) |-> ToLower(s[k])]

\* str::split(" "): the pieces between single blanks, empty pieces included
RECURSIVE SplitBlank(_)
SplitBlank(s) ==
    IF \A k \in 1..Len(s) : s[k] # " "
    THEN <<s>>
    ELSE LET k == CHOOSE j \in 1..Len(s) : s[j] = " " /\ \A m \in 1..(j - 1) : s[m] # " "
         IN  <<SubSeq(s, 1, k - 1)>> \o SplitBlank(SubSeq(s, k + 1, Len(s)))

\* parse without the filter of empty pieces
parseKeepEmpties(input) == SplitBlank(Lowercase(RemoveCommas(Trim(input))))

\* parse(input)
parse(input) ==
    SelectSeq(SplitBlank(Lowercase(RemoveCommas(Trim(input)))), LAMBDA t : t # <<>>)

\* ---------------------------------------------------- ensure_int_vector
I32Max == 2147483647

RECURSIVE DecimalValue(_)
DecimalValue(ds) ==
    IF ds = <<>> THEN 0 ELSE 10 * DecimalValue(SubSeq(ds, 1, Len(ds) - 1)) + DigitVal(ds[Len(ds)])

\* the digits of a token after its optional sign
Unsigned(t) == IF t # <<>> /\ t[1] \in {"-", "+"} THEN Tail(t) ELSE t

\* str::parse::<i32>() is Ok: an optional sign, then digits, the value an i32
IsI32(t) ==
    /\ Unsigned(t) # <<>>
    /\ \A k \in 1..Len(Unsigned(t)) : IsDigit(Unsigned(t)[k])
    /\ DecimalValue(Unsigned(t)) <= I32Max

ParseI32(t) ==
    IF t[1] = "-" THEN 0 - DecimalValue(Unsigned(t)) ELSE DecimalValue(Unsigned(t))

\* helper::ensure_int_vector(&tokens).is_some()
IsIntVector(tokens) == \A k \in 1..Len(tokens) : IsI32(tokens[k])

\* helper::ensure_int_vector(&tokens).unwrap(): the numbers, in the order given
ensure_int_vector(tokens) == [k \in 1..Len(tokens) |-> ParseI32(tokens[k])]

\* Regex::new(r"^\d+").is_match(s)
regex_is_match(s) == s # <<>> /\ IsDigit(s[1])

\* ------------------------------------------------------------ input lines
\* Join words with single blanks
RECURSIVE JoinBlank(_)
JoinBlank(ws) ==
    IF ws = <<>> THEN <<>>
    ELSE IF Len(ws) = 1 THEN ws[1]
    ELSE ws[1] \o <<" ">> \o JoinBlank(Tail(ws))

\* the words typed after the first word
ArgWords == {<<"0">>, <<"1">>, <<"2">>, <<"-", "1">>, <<"x">>}

\* the first words typed before a list of such words
FirstWords == {<<"p">>, <<"d">>, <<"e">>, <<"1">>, <<"0">>}

RECURSIVE SeqsUpTo(_, _)
SeqsUpTo(S, n) ==
    IF n = 0 THEN {<<>>}
    ELSE LET shorter == SeqsUpTo(S, n - 1)
         IN  shorter \cup {<<x>> \o s : x \in S, s \in {t \in shorter : Len(t) = n - 1}}

ArgLists == SeqsUpTo(ArgWords, MaxArgs)

\* other lines: nothing at all (end of input), blank lines, h and q, words that
\* are no command, upper case, commas, doubled blanks, a tab
OtherLines ==
    {<<>>,
     <<"\n">>,
     <<" ", " ", "\n">>,
     <<",", " ", ",", "\n">>,
     <<"h", "\n">>,
     <<"h", " ", "1", "\n">>,
     <<"H", "\n">>,
     <<"q", "\n">>,
     <<"q", " ", "1", "\n">>,
     <<" ", "Q", " ", "\n">>,
     <<"x", "\n">>,
     <<"x", " ", "1", "\n">>,
     <<"p", "1", "\n">>,
     <<"d", "d", " ", "1", "\n">>,
     <<"-", "1", " ", "1", "\n">>,
     <<"1", "x", " ", "1", "\n">>,
     <<"2", "\n">>,
     <<"D", " ", " ", "1", ",", " ", "2", "\n">>,
     <<"1", ",", "2", "\n">>,
     <<"1", "\t", "2", "\n">>}

\* what read_line can return
InputLines ==
    {JoinBlank(<<f>> \o a) \o <<"\n">> : f \in FirstWords, a \in ArgLists} \cup OtherLines

\* the token lists process() can get from read_line and parse
ParsedLines == {parse(l) : l \in InputLines}

\* ------------------------------------------------------------------ store
ShellUrl == <<"shell::", "vim notes.md">>
WebUrl == <<"https://", "example.com">>

\* The Store at the start: bookmarks 1..MaxId, the first one a shell bookmark
UrlOf(id) == IF id = 1 THEN ShellUrl ELSE WebUrl

Bookmark(id) == [id |-> id, URL |-> UrlOf(id)]

InitialStore == [id \in 1..MaxId |-> [URL |-> UrlOf(id), rev |-> 0]]

\* a result list: bookmarks of the Store, each at most once, in any order
ResultLists ==
    {[k \in 1..Len(s) |-> Bookmark(s[k])] :
        s \in {t \in SeqsUpTo(1..MaxId, MaxBms) :
                  \A a, b \in 1..Len(t) : a # b => t[a] # t[b]}}

\* Store.delete(id): the bookmark is gone
StoreDelete(st, id) == [k \in DOMAIN st \ {id} |-> st[k]]

\* Store.update(bookmark): the record is written
StoreUpdate(st, id) == [st EXCEPT ![id].rev = @ + 1]

Reverse(s) == [k \in 1..Len(s) |-> s[Len(s) + 1 - k]]

\* main.rs:192-272: bkmr search, interactive, which shows bms and calls process(bms)
SearchArgv == [cmd |-> "search"]

Init ==
    /\ bms \in ResultLists
    /\ store = InitialStore
    /\ pc = "AwaitingInput"
    /\ first = <<>>
    /\ act = "none"
    /\ ids = <<>>
    /\ idx = 1
    /\ calls = <<>>
    /\ result = "none"
    /\ child = "none"
    /\ out = <<>>
    /\ numeric = "unused"
    /\ ntok = 0
    /\ argv = SearchArgv
    /\ cands = <<>>
    /\ conn = 0
    /\ fetched = <<>>
    /\ exit = "running"

\* ---------------------------------------------------------------- process
\* the first token selects one of the arms p, d, e
IsCommand(t) == t \in {<<"p">>, <<"d">>, <<"e">>}

\* the tokens an arm hands to ensure_int_vector: tokens.split_off(1) for p, d, e
\* and the whole list for a line that starts with digits
Operands(tokens) == IF IsCommand(tokens[1]) THEN Tail(tokens) ELSE tokens

\* Arm with a break in the default arm
ArmInvalidBreaks(tokens) ==
    IF Len(tokens) = 0 THEN "empty"
    ELSE IF IsCommand(tokens[1])
         THEN IF IsIntVector(Tail(tokens)) THEN tokens[1][1] ELSE "continue"
    ELSE IF tokens[1] = <<"h">> THEN "h"
    ELSE IF regex_is_match(tokens[1])
         THEN IF IsIntVector(tokens) THEN "open" ELSE "continue"
    ELSE "q"

\* Arm with break for continue where ids.is_none()
ArmNotNumbersBreaks(tokens) ==
    IF Len(tokens) = 0 THEN "empty"
    ELSE IF IsCommand(tokens[1])
         THEN IF IsIntVector(Tail(tokens)) THEN tokens[1][1] ELSE "q"
    ELSE IF tokens[1] = <<"h">> THEN "h"
    ELSE IF tokens[1] = <<"q">> THEN "q"
    ELSE IF regex_is_match(tokens[1])
         THEN IF IsIntVector(tokens) THEN "open" ELSE "q"
    ELSE "invalid"

\* process.rs:90-150: the way one pass of the loop takes for a token list.
\* "continue" is an arm p, d, e or digits whose ids.is_none().
Arm(tokens) ==
    IF Len(tokens) = 0 THEN "empty"
    ELSE IF IsCommand(tokens[1])
         THEN IF IsIntVector(Tail(tokens)) THEN tokens[1][1] ELSE "continue"
    ELSE IF tokens[1] = <<"h">> THEN "h"
    ELSE IF tokens[1] = <<"q">> THEN "q"
    ELSE IF regex_is_match(tokens[1])
         THEN IF IsIntVector(tokens) THEN "open" ELSE "continue"
    ELSE "invalid"

Arms == {"empty", "p", "d", "e", "h", "q", "open", "continue", "invalid"}

\* the token lists that take each arm
ArmLines == [a \in Arms |-> {t \in ParsedLines : Arm(t) = a}]

\* what ensure_int_vector returns in the pass for a token list: some, none, or
\* unused in the arms that do not call it
Numeric(tokens) ==
    IF Len(tokens) = 0 THEN "unused"
    ELSE IF ~(IsCommand(tokens[1]) \/ regex_is_match(tokens[1])) THEN "unused"
    ELSE IF IsIntVector(Operands(tokens)) THEN "some"
    ELSE "none"

\* tokens[0], the empty sequence standing for an empty token list
FirstOf(tokens) == IF Len(tokens) = 0 THEN <<>> ELSE tokens[1]

\* process.rs:91-93: an empty token list breaks the loop
ReadEmpty ==
    /\ pc = "AwaitingInput"
    /\ \E tokens \in ArmLines["empty"] :
        /\ first' = FirstOf(tokens)
        /\ numeric' = Numeric(tokens)
        /\ ntok' = 0
    /\ pc' = "Done"
    /\ UNCHANGED <<bms, store, act, ids, idx, calls, result, child, out>>
    /\ UNCHANGED mvars

\* process.rs:133: "q" => break
ReadQuit ==
    /\ pc = "AwaitingInput"
    /\ \E tokens \in ArmLines["q"] :
        /\ first' = FirstOf(tokens)
        /\ numeric' = Numeric(tokens)
        /\ ntok' = 0
    /\ pc' = "Done"
    /\ UNCHANGED <<bms, store, act, ids, idx, calls, result, child, out>>
    /\ UNCHANGED mvars

\* process.rs:132: "h" => println!(help_text), and the loop goes on
ReadHelp ==
    /\ pc = "AwaitingInput"
    /\ \E tokens \in ArmLines["h"] :
        /\ first' = FirstOf(tokens)
        /\ numeric' = Numeric(tokens)
        /\ ntok' = 0
    /\ pc' = "AwaitingInput"
    /\ UNCHANGED <<bms, store, act, ids, idx, calls, result, child, out>>
    /\ UNCHANGED mvars

\* process.rs:146-149: _ => "Invalid Input" and the help text, and the loop goes on
ReadInvalid ==
    /\ pc = "AwaitingInput"
    /\ \E tokens \in ArmLines["invalid"] :
        /\ first' = FirstOf(tokens)
        /\ numeric' = Numeric(tokens)
        /\ ntok' = 0
    /\ pc' = "AwaitingInput"
    /\ UNCHANGED <<bms, store, act, ids, idx, calls, result, child, out>>
    /\ UNCHANGED mvars

\* process.rs:99-102, 111-114, 123-126, 137-140: ids.is_none() => continue
ReadNotNumbers ==
    /\ pc = "AwaitingInput"
    /\ \E tokens \in ArmLines["continue"] :
        /\ first' = FirstOf(tokens)
        /\ numeric' = Numeric(tokens)
        /\ ntok' = 0
    /\ pc' = "AwaitingInput"
    /\ UNCHANGED <<bms, store, act, ids, idx, calls, result, child, out>>
    /\ UNCHANGED mvars

\* i32::to_string of a number that is not negative
RECURSIVE ToStringNat(_)
ToStringNat(n) ==
    IF n < Len(Digits) THEN <<Digits[n + 1]>>
    ELSE ToStringNat(n \div Len(Digits)) \o <<Digits[(n % Len(Digits)) + 1]>>

\* print_ids:329: x.to_string() of an i32
to_string(x) == IF x < 0 THEN <<"-">> \o ToStringNat(0 - x) ELSE ToStringNat(x)

\* print_ids:324-328: the ids given or, when none is given, 1..=bms.len()
PrintedIds(given, list) == IF Len(given) = 0 THEN [k \in 1..Len(list) |-> k] ELSE given

\* print_ids that prints the ids of the bookmarks when no ordinal is given
print_idsOfBookmarks(given, list) ==
    LET nums == IF Len(given) = 0 THEN [k \in 1..Len(list) |-> list[k].id] ELSE given
    IN  JoinBlank([k \in 1..Len(nums) |-> to_string(nums[k])])

\* print_ids(ids, bms): the line that println! writes, without its line end
print_ids(given, list) ==
    LET nums == PrintedIds(given, list)
    IN  JoinBlank([k \in 1..Len(nums) |-> to_string(nums[k])])

\* process.rs:97-108: "p" prints, and breaks whatever print_ids returned
ReadPrint ==
    /\ pc = "AwaitingInput"
    /\ \E tokens \in ArmLines["p"] :
        /\ first' = FirstOf(tokens)
        /\ numeric' = Numeric(tokens)
        /\ ntok' = Len(tokens)
        /\ ids' = ensure_int_vector(Tail(tokens))
        /\ out' = print_ids(ensure_int_vector(Tail(tokens)), bms)
    /\ act' = "print"
    /\ result' = "ok"
    /\ pc' = "Done"
    /\ UNCHANGED <<bms, store, idx, calls, child>>
    /\ UNCHANGED mvars

\* delete_bms:207: ids.reverse() before the batch
DeleteOrder(given) == Reverse(given)

\* process.rs:109-116 and delete_bms:205-213: the batch starts
ReadDelete ==
    /\ pc = "AwaitingInput"
    /\ \E tokens \in ArmLines["d"] :
        /\ first' = FirstOf(tokens)
        /\ numeric' = Numeric(tokens)
        /\ ntok' = Len(tokens)
        /\ ids' = DeleteOrder(ensure_int_vector(Tail(tokens)))
    /\ act' = "delete"
    /\ idx' = 1
    /\ pc' = "Dispatching"
    /\ UNCHANGED <<bms, store, calls, result, child, out>>
    /\ UNCHANGED mvars

\* process.rs:121-127 and edit_bms:154-156: the batch starts
ReadEdit ==
    /\ pc = "AwaitingInput"
    /\ \E tokens \in ArmLines["e"] :
        /\ first' = FirstOf(tokens)
        /\ numeric' = Numeric(tokens)
        /\ ntok' = Len(tokens)
        /\ ids' = ensure_int_vector(Tail(tokens))
    /\ act' = "edit"
    /\ idx' = 1
    /\ pc' = "Dispatching"
    /\ UNCHANGED <<bms, store, calls, result, child, out>>
    /\ UNCHANGED mvars

\* process.rs:135-141 and open_bms:197-200: the batch starts
ReadOpen ==
    /\ pc = "AwaitingInput"
    /\ \E tokens \in ArmLines["open"] :
        /\ first' = FirstOf(tokens)
        /\ numeric' = Numeric(tokens)
        /\ ntok' = Len(tokens)
        /\ ids' = ensure_int_vector(tokens)
    /\ act' = "open"
    /\ idx' = 1
    /\ pc' = "Dispatching"
    /\ UNCHANGED <<bms, store, calls, result, child, out>>
    /\ UNCHANGED mvars

\* -------------------------------------------------------- do_sth_with_bms
\* InRange with the bound one too far
InRangeOffByOne(id, len) == id >= 0 /\ id <= len + 1

\* process.rs:230: id as usize <= bms.len().  A negative i32 converts to a usize
\* above every Vec length, so the comparison is false for it.
InRange(id, len) == id >= 0 /\ id <= len

\* process.rs:231: id as usize - 1, the index into bms
IndexOf(id) == id - 1

\* process.rs:231: usize has no -1: the subtraction overflows (debug build) or
\* wraps to usize::MAX and the indexing is out of bounds (release build); both panic
IndexPanics(id, len) == IndexOf(id) < 0 \/ IndexOf(id) >= len

\* Resolve by the bookmark's id where the list has it, not by position
ResolveById(id) ==
    IF \E k \in 1..Len(bms) : bms[k].id = id
    THEN bms[CHOOSE k \in 1..Len(bms) : bms[k].id = id]
    ELSE bms[id]

\* process.rs:231: &bms[id as usize - 1]
Resolve(id) == bms[IndexOf(id) + 1]

\* the for loop has an id left
AtId == pc = "Dispatching" /\ idx <= Len(ids)

\* the loop is at an id that resolves to a bookmark
AtBookmark ==
    /\ AtId
    /\ InRange(ids[idx], Len(bms))
    /\ ~IndexPanics(ids[idx], Len(bms))

\* one invocation of do_sth: the action, the ordinal, the bookmark, what it returned
\* (running while _open_bm waits), the exit status of a shell command, the command
\* handed to sh, the text do_edit read back from temp.txt, and what became of
\* temp.txt (none: not created by this invocation, left, removed)
Call(a, res) ==
    [act |-> a, ord |-> ids[idx], bm |-> Resolve(ids[idx]), res |-> res, status |-> "none",
     cmd |-> <<>>, text |-> <<>>, temp |-> "none"]

\* AfterCall with the Err dropped (let _ = do_sth(bm)): the loop goes on
AfterCallSwallow(res) ==
    /\ result' = result
    /\ pc' = "Dispatching"
    /\ idx' = idx + 1

\* AfterCall with continue for break in process(): a failed batch reprompts
AfterCallReprompt(res) ==
    IF res = "err"
    THEN /\ result' = "err"
         /\ pc' = "AwaitingInput"
         /\ idx' = idx
    ELSE /\ result' = result
         /\ pc' = "Dispatching"
         /\ idx' = idx + 1

\* process.rs:239-246: do_sth(bm)...?: an Err returns from do_sth_with_bms, and
\* process() logs it and breaks (unwrap_or_else, break); an Ok goes to the next id
AfterCall(res) ==
    IF res = "err"
    THEN /\ result' = "err"
         /\ pc' = "Done"
         /\ idx' = idx
    ELSE /\ result' = result
         /\ pc' = "Dispatching"
         /\ idx' = idx + 1

\* DoSthSkip with an else branch that returns an error
DoSthSkipFails ==
    /\ pc = "Dispatching"
    /\ idx <= Len(ids)
    /\ ~(ids[idx] >= 0 /\ ids[idx] <= Len(bms))
    /\ result' = "err"
    /\ pc' = "Done"
    /\ UNCHANGED <<bms, store, first, act, ids, idx, calls, child, out>>
    /\ UNCHANGED <<numeric, ntok>>
    /\ UNCHANGED mvars

\* process.rs:230,247: an id that is not in range has no else branch
DoSthSkip ==
    /\ AtId
    /\ ~InRange(ids[idx], Len(bms))
    /\ idx' = idx + 1
    /\ UNCHANGED <<bms, store, pc, first, act, ids, calls, result, child, out>>
    /\ UNCHANGED <<numeric, ntok>>
    /\ UNCHANGED mvars

\* process.rs:231: the id 0 passes the comparison and the index underflows
DoSthPanic ==
    /\ AtId
    /\ InRange(ids[idx], Len(bms))
    /\ IndexPanics(ids[idx], Len(bms))
    /\ pc' = "Panicked"
    /\ UNCHANGED <<bms, store, first, act, ids, idx, calls, result, child, out>>
    /\ UNCHANGED <<numeric, ntok>>
    /\ UNCHANGED mvars

\* process.rs:249: Ok(()) after the last id; process() breaks
DoSthReturn ==
    /\ pc = "Dispatching"
    /\ idx > Len(ids)
    /\ result' = "ok"
    /\ pc' = "Done"
    /\ UNCHANGED <<bms, store, first, act, ids, idx, calls, child, out>>
    /\ UNCHANGED <<numeric, ntok>>
    /\ UNCHANGED mvars

\* Store.delete(id) -> Unit | NotFound, or a Store error
DeleteOutcomes(id) == IF id \in DOMAIN store THEN {"ok", "err"} ELSE {"err"}

\* delete_bms:209-212: delete_bm(bm) is delete_bookmark2(bm.id)?
DoSthDelete ==
    /\ AtBookmark
    /\ act = "delete"
    /\ \E res \in DeleteOutcomes(Resolve(ids[idx]).id) :
        /\ store' = IF res = "ok" THEN StoreDelete(store, Resolve(ids[idx]).id) ELSE store
        /\ calls' = Append(calls, Call("delete", res))
        /\ AfterCall(res)
    /\ UNCHANGED <<bms, first, act, ids, child, out>>
    /\ UNCHANGED <<numeric, ntok>>
    /\ UNCHANGED mvars

\* do_edit:252-320, by where it ends: "create" File::create failed, "io" a write,
\* editor or read error before the update, "short" fewer than 4 lines left
\* (lines[3] panics), "update" the Store's update failed, "remove" remove_file
\* failed after the update, "ok"
EditOutcomes(id) ==
    IF id \in DOMAIN store THEN {"ok", "create", "io", "short", "update", "remove"}
    ELSE {"create", "io", "short", "update"}

\* what has become of temp.txt for each way do_edit ends
EditTemp(how) ==
    CASE how = "ok" -> "removed"
      [] how = "create" -> "none"
      [] OTHER -> "left"

\* what do_edit returns for each way it ends
EditResult(how) ==
    CASE how = "ok" -> "ok"
      [] how = "short" -> "panic"
      [] OTHER -> "err"

DoSthEdit ==
    /\ AtBookmark
    /\ act = "edit"
    /\ \E how \in EditOutcomes(Resolve(ids[idx]).id) :
        /\ store' = IF how \in {"ok", "remove"}
                    THEN StoreUpdate(store, Resolve(ids[idx]).id)
                    ELSE store
        /\ calls' = Append(calls, [Call("edit", EditResult(how)) EXCEPT !.temp = EditTemp(how)])
        /\ IF EditResult(how) = "panic"
           THEN pc' = "Panicked" /\ UNCHANGED <<idx, result>>
           ELSE AfterCall(EditResult(how))
    /\ UNCHANGED <<bms, first, act, ids, child, out>>
    /\ UNCHANGED <<numeric, ntok>>
    /\ UNCHANGED mvars

\* _open_bm:167: uri.starts_with("shell::")
IsShell(url) == url[1] = "shell::"

\* _open_bm:182-193: open::that(..)?, Ok or the opener's error
DoSthOpenUrl ==
    /\ AtBookmark
    /\ act = "open"
    /\ ~IsShell(Resolve(ids[idx]).URL)
    /\ \E res \in {"ok", "err"} :
        /\ calls' = Append(calls, Call("open", res))
        /\ AfterCall(res)
    /\ UNCHANGED <<bms, store, first, act, ids, child, out>>
    /\ UNCHANGED <<numeric, ntok>>
    /\ UNCHANGED mvars

\* _open_bm:168: uri.replace("shell::", ""): every occurrence is taken out
ShellCommand(url) == SelectSeq(url, LAMBDA c : c # "shell::")

\* DoSthOpenShell without child.wait(): the loop goes on while the command runs
DoSthOpenShellNoWait ==
    /\ pc = "Dispatching"
    /\ idx <= Len(ids)
    /\ ids[idx] >= 1
    /\ ids[idx] <= Len(bms)
    /\ act = "open"
    /\ bms[ids[idx]].URL[1] = "shell::"
    /\ calls' = Append(calls, [act |-> "open", ord |-> ids[idx], bm |-> bms[ids[idx]],
                                res |-> "running", status |-> "none",
                                cmd |-> ShellCommand(bms[ids[idx]].URL),
                                text |-> <<>>, temp |-> "none"])
    /\ child' = "running"
    /\ idx' = idx + 1
    /\ UNCHANGED <<bms, store, pc, first, act, ids, result, out>>
    /\ UNCHANGED <<numeric, ntok>>
    /\ UNCHANGED mvars

\* _open_bm:170-177: sh -c cmd is spawned, or spawn()? returns the error
DoSthOpenShell ==
    /\ AtBookmark
    /\ act = "open"
    /\ IsShell(Resolve(ids[idx]).URL)
    /\ \/ /\ calls' = Append(calls, Call("open", "err"))
          /\ AfterCall("err")
          /\ child' = child
       \/ /\ calls' = Append(calls, [Call("open", "running")
                                     EXCEPT !.cmd = ShellCommand(Resolve(ids[idx]).URL)])
          /\ child' = "running"
          /\ pc' = "Waiting"
          /\ UNCHANGED <<idx, result>>
    /\ UNCHANGED <<bms, store, first, act, ids, out>>
    /\ UNCHANGED <<numeric, ntok>>
    /\ UNCHANGED mvars

\* _open_bm:179: child.wait() blocks until the command has ended
WaitReturns == child' = "none"

\* _open_bm:179-181: the command ends with some status, which is logged; Ok(())
ChildExit ==
    /\ pc = "Waiting"
    /\ child = "running"
    /\ \E status \in {"0", "1"} :
        /\ calls' = [calls EXCEPT ![Len(calls)].res = "ok", ![Len(calls)].status = status]
        /\ WaitReturns
        /\ AfterCall("ok")
    /\ UNCHANGED <<bms, store, first, act, ids, out>>
    /\ UNCHANGED <<numeric, ntok>>
    /\ UNCHANGED mvars

\* _open_bm:179: child.wait() is an Err and expect() panics
WaitPanics ==
    /\ pc = "Waiting"
    /\ child = "running"
    /\ calls' = [calls EXCEPT ![Len(calls)].res = "panic"]
    /\ pc' = "Panicked"
    /\ UNCHANGED <<bms, store, first, act, ids, idx, result, child, out>>
    /\ UNCHANGED <<numeric, ntok>>
    /\ UNCHANGED mvars

Next ==
    \/ ReadEmpty
    \/ ReadQuit
    \/ ReadHelp
    \/ ReadInvalid
    \/ ReadNotNumbers
    \/ ReadPrint
    \/ ReadDelete
    \/ ReadEdit
    \/ ReadOpen
    \/ DoSthSkip
    \/ DoSthPanic
    \/ DoSthReturn
    \/ DoSthDelete
    \/ DoSthEdit
    \/ DoSthOpenUrl
    \/ DoSthOpenShell
    \/ ChildExit
    \/ WaitPanics

Spec == Init /\ [][Next]_vars

\* ------------------------------------------------------ main(): id commands
\* str::split(','): the pieces between commas, the empty ones kept
RECURSIVE SplitComma(_)
SplitComma(s) ==
    IF \A k \in 1..Len(s) : s[k] # ","
    THEN <<s>>
    ELSE LET k == CHOOSE j \in 1..Len(s) : s[j] = "," /\ \A m \in 1..(j - 1) : s[m] # ","
         IN  <<SubSeq(s, 1, k - 1)>> \o SplitComma(SubSeq(s, k + 1, Len(s)))

\* the ids arguments given on the command line
MainIdStrings ==
    {<<"1">>, <<"2">>, <<"3">>, <<"0">>, <<"1", ",", "2">>, <<"2", ",", "1">>,
     <<"2", ",", "2">>, <<"x">>, <<"1", ",", "x">>, <<"1", ",">>, <<>>}

\* the command lines of the commands that take an id list
MainArgvs ==
    {[cmd |-> c, ids |-> s, tags |-> "none", tags_not |-> "none", force |-> FALSE] :
        c \in {"open", "delete", "edit", "show"}, s \in MainIdStrings}
    \cup
    {[cmd |-> "update", ids |-> s, tags |-> t, tags_not |-> n, force |-> f] :
        s \in MainIdStrings, t \in {"none", "some"}, n \in {"none", "some"},
        f \in BOOLEAN}

\* the Stores a command can find: some of the bookmarks 1..MaxId
Stores == {[id \in S |-> InitialStore[id]] : S \in SUBSET (1..MaxId)}

RECURSIVE SortedIds(_)
SortedIds(S) ==
    IF S = {} THEN <<>>
    ELSE LET m == CHOOSE x \in S : \A y \in S : x <= y
         IN  <<m>> \o SortedIds(S \ {m})

\* Bookmarks::new("".to_string()).bms: every bookmark of the Store
LoadAll(st) == [k \in 1..Cardinality(DOMAIN st) |-> Bookmark(SortedIds(DOMAIN st)[k])]

\* ensure_int_vector(&ids.split(',')...) of the command line
MainIdsOk == IsIntVector(SplitComma(argv.ids))
MainIds == ensure_int_vector(SplitComma(argv.ids))

InitMain ==
    /\ bms = <<>>
    /\ store \in Stores
    /\ pc = "MainStart"
    /\ first = <<>>
    /\ act = "none"
    /\ ids = <<>>
    /\ idx = 1
    /\ calls = <<>>
    /\ result = "none"
    /\ child = "none"
    /\ out = <<>>
    /\ numeric = "unused"
    /\ ntok = 0
    /\ argv \in MainArgvs
    /\ cands = <<>>
    /\ conn = 0
    /\ fetched = <<>>
    /\ exit = "running"

\* what a step of main() never touches
MainFrame == UNCHANGED <<first, child, out, ntok, argv, cands>>

\* main.rs:275-286: Open makes its Dal, then parses the ids; bad ids are logged
\* and main returns
MainOpenBadIds ==
    /\ pc = "MainStart"
    /\ argv.cmd = "open"
    /\ conn' = conn + 1
    /\ ~MainIdsOk
    /\ numeric' = "none"
    /\ pc' = "Exited"
    /\ exit' = "0"
    /\ UNCHANGED <<bms, store, act, ids, idx, calls, result, fetched>>
    /\ MainFrame

\* main.rs:275-288: Open with an id list
MainOpenStart ==
    /\ pc = "MainStart"
    /\ argv.cmd = "open"
    /\ conn' = conn + 1
    /\ MainIdsOk
    /\ numeric' = "some"
    /\ ids' = MainIds
    /\ idx' = 1
    /\ act' = "open"
    /\ pc' = "MainOpen"
    /\ UNCHANGED <<bms, store, calls, result, fetched, exit>>
    /\ MainFrame

\* main.rs:289-294: the bookmark is found; open::that(bm.URL).unwrap()
MainOpenFound ==
    /\ pc = "MainOpen"
    /\ idx <= Len(ids)
    /\ ids[idx] \in DOMAIN store
    /\ \E opened \in {"ok", "fail"} :
        /\ fetched' = Append(fetched, [id |-> ids[idx], found |-> TRUE, opened |-> opened])
        /\ IF opened = "ok"
           THEN pc' = pc /\ idx' = idx + 1
           ELSE pc' = "Panicked" /\ idx' = idx
    /\ UNCHANGED <<bms, store, act, ids, calls, result, numeric, conn, exit>>
    /\ MainFrame

\* main.rs:295-302: Err(_) of get_bookmark_by_id is logged, the loop goes on
MainOpenNotFound ==
    /\ pc = "MainOpen"
    /\ idx <= Len(ids)
    /\ ids[idx] \notin DOMAIN store
    /\ fetched' = Append(fetched, [id |-> ids[idx], found |-> FALSE, opened |-> "none"])
    /\ idx' = idx + 1
    /\ UNCHANGED <<bms, store, pc, act, ids, calls, result, numeric, conn, exit>>
    /\ MainFrame

\* main.rs:304: after the loop main returns
MainOpenEnd ==
    /\ pc = "MainOpen"
    /\ idx > Len(ids)
    /\ pc' = "Exited"
    /\ exit' = "0"
    /\ UNCHANGED <<bms, store, act, ids, idx, calls, result, numeric, conn, fetched>>
    /\ MainFrame

\* main.rs:472-482: Show makes its Dal, then parses the ids; bad ids exit(1)
MainShowBadIds ==
    /\ pc = "MainStart"
    /\ argv.cmd = "show"
    /\ conn' = conn + 1
    /\ ~MainIdsOk
    /\ numeric' = "none"
    /\ pc' = "Exited"
    /\ exit' = "1"
    /\ UNCHANGED <<bms, store, act, ids, idx, calls, result, fetched>>
    /\ MainFrame

\* main.rs:472-484: Show with an id list
MainShowStart ==
    /\ pc = "MainStart"
    /\ argv.cmd = "show"
    /\ conn' = conn + 1
    /\ MainIdsOk
    /\ numeric' = "some"
    /\ ids' = MainIds
    /\ idx' = 1
    /\ act' = "show"
    /\ pc' = "MainShow"
    /\ UNCHANGED <<bms, store, calls, result, fetched, exit>>
    /\ MainFrame

\* main.rs:485-494: one get_bookmark_by_id; a bookmark found is pushed to bms
MainShowFetch ==
    /\ pc = "MainShow"
    /\ idx <= Len(ids)
    /\ fetched' = Append(fetched, [id |-> ids[idx], found |-> ids[idx] \in DOMAIN store,
                                   opened |-> "none"])
    /\ bms' = IF ids[idx] \in DOMAIN store THEN Append(bms, Bookmark(ids[idx])) ELSE bms
    /\ idx' = idx + 1
    /\ UNCHANGED <<store, pc, act, ids, calls, result, numeric, conn, exit>>
    /\ MainFrame

\* main.rs:496: show_bms(&bms), and main returns
MainShowEnd ==
    /\ pc = "MainShow"
    /\ idx > Len(ids)
    /\ pc' = "Exited"
    /\ exit' = "0"
    /\ UNCHANGED <<bms, store, act, ids, idx, calls, result, numeric, conn, fetched>>
    /\ MainFrame

\* main.rs:399-408 and 450-459: Delete and Edit parse first; bad ids exit(1)
MainBatchBadIds ==
    /\ pc = "MainStart"
    /\ argv.cmd \in {"delete", "edit"}
    /\ ~MainIdsOk
    /\ numeric' = "none"
    /\ pc' = "Exited"
    /\ exit' = "1"
    /\ UNCHANGED <<bms, store, act, ids, idx, calls, result, conn, fetched>>
    /\ MainFrame

\* main.rs:409-410: Delete loads every bookmark and calls delete_bms(ids, bms)
MainDeleteStart ==
    /\ pc = "MainStart"
    /\ argv.cmd = "delete"
    /\ MainIdsOk
    /\ numeric' = "some"
    /\ bms' = LoadAll(store)
    /\ ids' = DeleteOrder(MainIds)
    /\ idx' = 1
    /\ act' = "delete"
    /\ pc' = "Dispatching"
    /\ UNCHANGED <<store, calls, result, conn, fetched, exit>>
    /\ MainFrame

\* main.rs:460-461: Edit loads every bookmark and calls edit_bms(ids, bms)
MainEditStart ==
    /\ pc = "MainStart"
    /\ argv.cmd = "edit"
    /\ MainIdsOk
    /\ numeric' = "some"
    /\ bms' = LoadAll(store)
    /\ ids' = MainIds
    /\ idx' = 1
    /\ act' = "edit"
    /\ pc' = "Dispatching"
    /\ UNCHANGED <<store, calls, result, conn, fetched, exit>>
    /\ MainFrame

\* main.rs:410-418 and 461-469: unwrap_or_else exits with 1 on an Err; else main
\* returns
MainBatchExit ==
    /\ pc = "Done"
    /\ argv.cmd \in {"delete", "edit"}
    /\ exit = "running"
    /\ pc' = "Exited"
    /\ exit' = IF result = "err" THEN "1" ELSE "0"
    /\ UNCHANGED <<bms, store, act, ids, idx, calls, result, numeric, conn, fetched>>
    /\ MainFrame

\* a panic in main's thread ends the program abnormally
MainPanicExit ==
    /\ pc = "Panicked"
    /\ exit = "running"
    /\ exit' = "panic"
    /\ UNCHANGED <<bms, store, pc, act, ids, idx, calls, result, numeric, conn, fetched>>
    /\ MainFrame

\* main.rs:426-433: the test made on --force
ForceMisuse == argv.force /\ (argv.tags = "none" \/ argv.tags_not = "some")

\* main.rs:426-433: Update with --force and no tags, or with ntags, exits with 1
MainUpdateForceMisuse ==
    /\ pc = "MainStart"
    /\ argv.cmd = "update"
    /\ ForceMisuse
    /\ pc' = "Exited"
    /\ exit' = "1"
    /\ UNCHANGED <<bms, store, act, ids, idx, calls, result, numeric, conn, fetched>>
    /\ MainFrame

\* main.rs:434-443: Update with bad ids exits with 1
MainUpdateBadIds ==
    /\ pc = "MainStart"
    /\ argv.cmd = "update"
    /\ ~ForceMisuse
    /\ ~MainIdsOk
    /\ numeric' = "none"
    /\ pc' = "Exited"
    /\ exit' = "1"
    /\ UNCHANGED <<bms, store, act, ids, idx, calls, result, conn, fetched>>
    /\ MainFrame

\* bkmr::update_bookmarks(ids, tags, tags_not, force): every bookmark named that
\* the Store has is written once
RECURSIVE UpdateAll(_, _)
UpdateAll(st, given) ==
    IF given = <<>> THEN st
    ELSE UpdateAll(IF given[1] \in DOMAIN st THEN StoreUpdate(st, given[1]) ELSE st,
                   Tail(given))

\* main.rs:444-447: Update
MainUpdate ==
    /\ pc = "MainStart"
    /\ argv.cmd = "update"
    /\ ~ForceMisuse
    /\ MainIdsOk
    /\ numeric' = "some"
    /\ ids' = MainIds
    /\ act' = "update"
    /\ store' = UpdateAll(store, MainIds)
    /\ pc' = "Exited"
    /\ exit' = "0"
    /\ UNCHANGED <<bms, idx, calls, result, conn, fetched>>
    /\ MainFrame

NextMain ==
    \/ MainOpenBadIds
    \/ MainOpenStart
    \/ MainOpenFound
    \/ MainOpenNotFound
    \/ MainOpenEnd
    \/ MainShowBadIds
    \/ MainShowStart
    \/ MainShowFetch
    \/ MainShowEnd
    \/ MainBatchBadIds
    \/ MainDeleteStart
    \/ MainEditStart
    \/ MainBatchExit
    \/ MainPanicExit
    \/ MainUpdateForceMisuse
    \/ MainUpdateBadIds
    \/ MainUpdate
    \/ DoSthSkip
    \/ DoSthPanic
    \/ DoSthReturn
    \/ DoSthDelete
    \/ DoSthEdit

SpecMain == InitMain /\ [][NextMain]_vars

\* ----------------------------------------------------------- main(): search
\* Option<String>
None == [some |-> FALSE, v |-> <<>>]
Some(s) == [some |-> TRUE, v |-> s]

\* Tags::normalize_tag_string: split on commas, trim, lowercase, drop the empty
\* pieces; the result taken as a set
normalize_tag_string(opt) ==
    IF ~opt.some THEN {}
    ELSE {Lowercase(Trim(SplitComma(opt.v)[k])) : k \in 1..Len(SplitComma(opt.v))} \ {<<>>}

\* TagFilter.matches: the conjunction of the clauses that are present
matches(tags, all, any, all_not, any_not, exact) ==
    /\ exact.some => tags = normalize_tag_string(exact)
    /\ all.some => normalize_tag_string(all) \subseteq tags
    /\ all_not.some => ~(normalize_tag_string(all_not) \subseteq tags)
    /\ any.some => tags \cap normalize_tag_string(any) # {}
    /\ any_not.some => tags \cap normalize_tag_string(any_not) = {}

\* Bookmarks::filter(tags_all, tags_any, tags_all_not, tags_any_not, tags_exact)
filter(list, all, any, all_not, any_not, exact) ==
    SelectSeq(list, LAMBDA bm : matches(bm.tags, all, any, all_not, any_not, exact))

\* Bookmarks::new(fts_query).bms: the records the Store's text match returns for
\* the query, in the Store's order
Bookmarks_new(list) == SelectSeq(list, LAMBDA bm : bm.hit)

\* tags_all with the prefix in its place
tags_allPrefixOnly(a) ==
    IF a.tags_prefix.some THEN a.tags_prefix.v ELSE a.tags_all.v

\* main.rs:205-218: _tags_all
tags_all(a) ==
    IF a.tags_prefix.some
    THEN IF ~a.tags_all.some
         THEN a.tags_prefix.v
         ELSE a.tags_all.v \o <<",">> \o a.tags_prefix.v
    ELSE a.tags_all.v

\* SearchFilter with tags_any and tags_all_not in each other's place
SearchFilterSwapped(a, list) ==
    filter(list, Some(tags_all(a)), a.tags_all_not, a.tags_any, a.tags_any_not,
           a.tags_exact)

\* main.rs:224-230: bms.filter(Some(_tags_all), tags_any, tags_all_not,
\* tags_any_not, tags_exact)
SearchFilter(a, list) ==
    filter(list, Some(tags_all(a)), a.tags_any, a.tags_all_not, a.tags_any_not,
           a.tags_exact)

\* the lowercase letters in the order of their bytes
Letters ==
    <<"a", "b", "c", "d", "e", "f", "g", "h", "i", "j", "k", "l", "m",
      "n", "o", "p", "q", "r", "s", "t", "u", "v", "w", "x", "y", "z">>

CharRank(c) == CHOOSE k \in 1..Len(Letters) : Letters[k] = c

\* Ord for String: s < t
RECURSIVE StrLess(_, _)
StrLess(s, t) ==
    IF t = <<>> THEN FALSE
    ELSE IF s = <<>> THEN TRUE
    ELSE IF s[1] = t[1] THEN StrLess(Tail(s), Tail(t))
    ELSE CharRank(s[1]) < CharRank(t[1])

\* main.rs:239, 248, 251: the keys of sort_by_key, compared: key(x) < key(y)
KeyLess(by, x, y) ==
    IF by = "last_update_ts"
    THEN x.last_update_ts < y.last_update_ts
    ELSE StrLess(Lowercase(x.metadata), Lowercase(y.metadata))

\* slice::sort_by_key: a stable sort, ascending by the key
RECURSIVE InsertByKey(_, _, _)
InsertByKey(by, x, sorted) ==
    IF sorted = <<>> THEN <<x>>
    ELSE IF KeyLess(by, x, Head(sorted)) THEN <<x>> \o sorted
    ELSE <<Head(sorted)>> \o InsertByKey(by, x, Tail(sorted))

RECURSIVE sort_by_key(_, _)
sort_by_key(by, list) ==
    IF list = <<>> THEN <<>>
    ELSE InsertByKey(by, list[Len(list)], sort_by_key(by, SubSeq(list, 1, Len(list) - 1)))

\* SearchSort with the test of order_asc before the test of order_desc
SearchSortAscFirst(a, list) ==
    IF a.order_asc THEN sort_by_key("last_update_ts", list)
    ELSE IF a.order_desc THEN Reverse(sort_by_key("last_update_ts", list))
    ELSE sort_by_key("metadata", list)

\* main.rs:232-252: the sort the options select
SearchSort(a, list) ==
    IF a.order_desc THEN Reverse(sort_by_key("last_update_ts", list))
    ELSE IF a.order_asc THEN sort_by_key("last_update_ts", list)
    ELSE sort_by_key("metadata", list)

\* main.rs:223-252: the list Search shows
SearchResult(a, list) == SearchSort(a, SearchFilter(a, Bookmarks_new(list)))

\* the most records a Store returns where the sort is looked at
MaxCands == 3

\* the titles of those records
Titles == {<<"E">>, <<"d">>, <<"e">>}

\* the Store's answers where the sort is looked at: every record matches the text
SortCands ==
    UNION {{[k \in 1..n |-> [id |-> k, metadata |-> f[k][1], last_update_ts |-> f[k][2],
                             tags |-> {}, hit |-> TRUE]] :
               f \in [1..n -> Titles \X (1..MaxCands)]} : n \in 0..MaxCands}

\* the Store's answer where the filter is looked at
FilterCands ==
    <<[id |-> 1, metadata |-> <<"e">>, last_update_ts |-> 1, tags |-> {}, hit |-> TRUE],
      [id |-> 2, metadata |-> <<"d">>, last_update_ts |-> 2, tags |-> {<<"a">>}, hit |-> TRUE],
      [id |-> 3, metadata |-> <<"E">>, last_update_ts |-> 2, tags |-> {<<"b">>}, hit |-> TRUE],
      [id |-> 4, metadata |-> <<"d">>, last_update_ts |-> 1, tags |-> {<<"a">>, <<"b">>},
       hit |-> TRUE],
      [id |-> 5, metadata |-> <<"e">>, last_update_ts |-> 3, tags |-> {<<"a">>, <<"b">>},
       hit |-> FALSE],
      [id |-> 6, metadata |-> <<"d">>, last_update_ts |-> 3, tags |-> {<<"a">>, <<"c">>},
       hit |-> TRUE]>>

\* the values given to a tag option
TagOpts == {None, Some(<<"a">>), Some(<<"b">>), Some(<<"a", ",", "b">>)}

\* the command lines of Search where the sort is looked at
SortArgvs ==
    {[cmd |-> "search", tags_exact |-> None, tags_all |-> None, tags_all_not |-> None,
      tags_any |-> None, tags_any_not |-> None, tags_prefix |-> None,
      order_desc |-> d, order_asc |-> a, non_interactive |-> FALSE, is_fuzzy |-> FALSE] :
        d \in BOOLEAN, a \in BOOLEAN}

\* the command lines of Search where the filter is looked at
FilterArgvs ==
    {[cmd |-> "search", tags_exact |-> e, tags_all |-> al, tags_all_not |-> aln,
      tags_any |-> an, tags_any_not |-> ann, tags_prefix |-> pr,
      order_desc |-> FALSE, order_asc |-> FALSE, non_interactive |-> m[1],
      is_fuzzy |-> m[2]] :
        e \in TagOpts, al \in TagOpts, aln \in TagOpts, an \in TagOpts, ann \in TagOpts,
        pr \in TagOpts, m \in {<<FALSE, FALSE>>, <<TRUE, FALSE>>, <<FALSE, TRUE>>}}

InitSearch ==
    /\ \/ cands \in SortCands /\ argv \in SortArgvs
       \/ cands = FilterCands /\ argv \in FilterArgvs
    /\ bms = <<>>
    /\ store = InitialStore
    /\ pc = "SearchStart"
    /\ first = <<>>
    /\ act = "none"
    /\ ids = <<>>
    /\ idx = 1
    /\ calls = <<>>
    /\ result = "none"
    /\ child = "none"
    /\ out = <<>>
    /\ numeric = "unused"
    /\ ntok = 0
    /\ conn = 0
    /\ fetched = <<>>
    /\ exit = "running"

\* main.rs:192-273: Search filters and sorts; then fzf, or the list is shown and,
\* unless non_interactive, process(&bms.bms) is entered
Search ==
    /\ pc = "SearchStart"
    /\ argv.cmd = "search"
    /\ bms' = SearchResult(argv, cands)
    /\ IF argv.is_fuzzy \/ argv.non_interactive
       THEN pc' = "Exited" /\ exit' = "0"
       ELSE pc' = "AwaitingInput" /\ exit' = exit
    /\ UNCHANGED <<store, first, act, ids, idx, calls, result, child, out, numeric, ntok>>
    /\ UNCHANGED <<argv, cands, conn, fetched>>

NextSearch == Search

SpecSearch == InitSearch /\ [][NextSearch]_vars

\* ---------------------------------------------------- do_edit, by its text
\* In this part a bookmark is [id, URL, metadata, tags, desc], each field a
\* sequence of characters, and the Store maps an id to those fields and rev.

\* do_edit:257-266: the comment lines of the template, shortened
CommentUrl == <<"#", " ", "s">>
CommentUrl2 == <<"#", " ", "u">>
CommentTitle == <<"#", " ", "t">>
CommentTags == <<"#", " ", "g">>
CommentDesc == <<"#", " ", "c">>

\* do_edit:257-272: formatdoc! of the template
template(bm) ==
    CommentUrl \o <<"\n">> \o CommentUrl2 \o <<"\n">> \o bm.URL \o <<"\n">>
    \o CommentTitle \o <<"\n">> \o bm.metadata \o <<"\n">>
    \o CommentTags \o <<"\n">> \o bm.tags \o <<"\n">>
    \o CommentDesc \o <<"\n">> \o bm.desc \o <<"\n">>

\* str::split("\n"): the pieces between line feeds, the empty ones kept
RECURSIVE SplitNewline(_)
SplitNewline(s) ==
    IF \A k \in 1..Len(s) : s[k] # "\n"
    THEN <<s>>
    ELSE LET k == CHOOSE j \in 1..Len(s) : s[j] = "\n" /\ \A m \in 1..(j - 1) : s[m] # "\n"
         IN  <<SubSeq(s, 1, k - 1)>> \o SplitNewline(SubSeq(s, k + 1, Len(s)))

\* do_edit:297-300: the lines of the file that do not start with "#"
EditedLines(content) ==
    SelectSeq(SplitNewline(content), LAMBDA l : ~(l # <<>> /\ l[1] = "#"))

\* do_edit:301-309 indexes lines[0] .. lines[3]
EditFields == <<"URL", "metadata", "tags", "desc">>

\* do_edit:301-309: new_bm; the index panics when a line is missing
ParsesToBookmark(content) == Len(EditedLines(content)) >= Len(EditFields)

new_bm(bm, content) ==
    [id |-> bm.id,
     URL |-> EditedLines(content)[1],
     metadata |-> EditedLines(content)[2],
     tags |-> EditedLines(content)[3],
     desc |-> EditedLines(content)[4]]

\* Store.update(bookmark): the fields are written, rev counts the update
StoreWrite(st, b) ==
    [st EXCEPT ![b.id] = [URL |-> b.URL, metadata |-> b.metadata, tags |-> b.tags,
                          desc |-> b.desc, rev |-> st[b.id].rev + 1]]

\* the steps of do_edit that can return an Err: File::create, write_all, the
\* launch of vim, read_to_string, update_bookmark, remove_file
EditFaults == {"none", "create", "write", "vim", "read", "update", "remove"}

\* do_edit:252-320 with the text the editor left in temp.txt and the step that
\* fails, if any: what it returns, the Store after it, the text read back, and
\* what has become of temp.txt
do_edit(bm, st, content, fault) ==
    IF fault = "create"
    THEN [res |-> "err", store |-> st, text |-> <<>>, temp |-> "none"]
    ELSE IF fault \in {"write", "vim", "read"}
    THEN [res |-> "err", store |-> st, text |-> <<>>, temp |-> "left"]
    ELSE IF ~ParsesToBookmark(content)
    THEN [res |-> "panic", store |-> st, text |-> content, temp |-> "left"]
    ELSE IF fault = "update" \/ bm.id \notin DOMAIN st
    THEN [res |-> "err", store |-> st, text |-> content, temp |-> "left"]
    ELSE IF fault = "remove"
    THEN [res |-> "err", store |-> StoreWrite(st, new_bm(bm, content)), text |-> content,
          temp |-> "left"]
    ELSE [res |-> "ok", store |-> StoreWrite(st, new_bm(bm, content)), text |-> content,
          temp |-> "removed"]

\* the bookmarks edited: a plain one, one with an empty title, one with an empty
\* description, one whose title and one whose description starts with "#", and
\* one with a description of two lines
EditBookmarks ==
    {[id |-> 1, URL |-> <<"u">>, metadata |-> t, tags |-> <<",", "a", ",">>, desc |-> d] :
        t \in {<<"t">>}, d \in {<<"d">>, <<>>, <<"#", "d">>, <<"d", "\n", "e">>}}
    \cup
    {[id |-> 1, URL |-> <<"u">>, metadata |-> t, tags |-> <<",", "a", ",">>, desc |-> <<"d">>] :
        t \in {<<>>, <<"#", "t">>}}

\* a second bookmark of a batch
OtherBookmark ==
    [id |-> 2, URL |-> <<"v">>, metadata |-> <<"s">>, tags |-> <<",", "b", ",">>,
     desc |-> <<"e">>]

\* the result lists of the sessions in which bookmarks are edited
EditLists ==
    {<<b>> : b \in EditBookmarks} \cup {<<b, OtherBookmark>> : b \in EditBookmarks}
    \cup {<<OtherBookmark, b>> : b \in EditBookmarks}

\* the Store that holds the bookmarks of a list
StoreOf(list) ==
    [id \in {list[k].id : k \in 1..Len(list)} |->
        LET b == list[CHOOSE k \in 1..Len(list) : list[k].id = id]
        IN  [URL |-> b.URL, metadata |-> b.metadata, tags |-> b.tags, desc |-> b.desc,
             rev |-> 0]]

\* what the user can leave in temp.txt: the template as it is, the template with
\* another url, an empty file, and the url and title, or the url, title and tags,
\* each on a line of its own
EditorTexts(bm) ==
    {template(bm),
     template([bm EXCEPT !.URL = <<"w">>]),
     <<>>,
     bm.URL \o <<"\n">> \o bm.metadata \o <<"\n">>,
     bm.URL \o <<"\n">> \o bm.metadata \o <<"\n">> \o bm.tags \o <<"\n">>}

InitEdit ==
    /\ bms \in EditLists
    /\ store = StoreOf(bms)
    /\ pc = "AwaitingInput"
    /\ first = <<>>
    /\ act = "none"
    /\ ids = <<>>
    /\ idx = 1
    /\ calls = <<>>
    /\ result = "none"
    /\ child = "none"
    /\ out = <<>>
    /\ numeric = "unused"
    /\ ntok = 0
    /\ argv = SearchArgv
    /\ cands = <<>>
    /\ conn = 0
    /\ fetched = <<>>
    /\ exit = "running"

\* edit_bms:154-156 and do_edit:252-320: one invocation of do_edit
DoSthEditText ==
    /\ AtBookmark
    /\ act = "edit"
    /\ \E fault \in EditFaults :
       \E content \in IF fault \in {"none", "update", "remove"}
                      THEN EditorTexts(Resolve(ids[idx])) ELSE {<<>>} :
         LET r == do_edit(Resolve(ids[idx]), store, content, fault)
         IN  /\ store' = r.store
             /\ calls' = Append(calls, [Call("edit", r.res) EXCEPT !.text = r.text,
                                                                   !.temp = r.temp])
             /\ IF r.res = "panic"
                THEN pc' = "Panicked" /\ UNCHANGED <<idx, result>>
                ELSE AfterCall(r.res)
    /\ UNCHANGED <<bms, first, act, ids, child, out>>
    /\ UNCHANGED <<numeric, ntok>>
    /\ UNCHANGED mvars

NextEdit ==
    \/ ReadEdit
    \/ DoSthSkip
    \/ DoSthPanic
    \/ DoSthReturn
    \/ DoSthEditText

SpecEdit == InitEdit /\ [][NextEdit]_vars

\* ------------------------------------------- delete on a Store that compacts
\* The Store the comment of delete_bms speaks of ("reverse sort necessary due to
\* DB compaction"): a delete of id closes the gap, every id above it goes down by
\* one.  A record keeps in was the id it had when the session began.
CompactStore == [id \in 1..MaxId |-> [URL |-> UrlOf(id), rev |-> 0, was |-> id]]

\* Store.delete(id) with compaction
StoreDeleteCompact(st, id) ==
    [k \in 1..(Cardinality(DOMAIN st) - 1) |-> IF k < id THEN st[k] ELSE st[k + 1]]

InitCompact ==
    /\ bms \in ResultLists
    /\ store = CompactStore
    /\ pc = "AwaitingInput"
    /\ first = <<>>
    /\ act = "none"
    /\ ids = <<>>
    /\ idx = 1
    /\ calls = <<>>
    /\ result = "none"
    /\ child = "none"
    /\ out = <<>>
    /\ numeric = "unused"
    /\ ntok = 0
    /\ argv = SearchArgv
    /\ cands = <<>>
    /\ conn = 0
    /\ fetched = <<>>
    /\ exit = "running"

\* delete_bms:209-212: delete_bm(bm) is delete_bookmark2(bm.id)?, on the Store
\* that compacts
DoSthDeleteCompact ==
    /\ AtBookmark
    /\ act = "delete"
    /\ \E res \in DeleteOutcomes(Resolve(ids[idx]).id) :
        /\ store' = IF res = "ok" THEN StoreDeleteCompact(store, Resolve(ids[idx]).id)
                    ELSE store
        /\ calls' = Append(calls, Call("delete", res))
        /\ AfterCall(res)
    /\ UNCHANGED <<bms, first, act, ids, child, out>>
    /\ UNCHANGED <<numeric, ntok>>
    /\ UNCHANGED mvars

NextCompact ==
    \/ ReadDelete
    \/ DoSthSkip
    \/ DoSthPanic
    \/ DoSthReturn
    \/ DoSthDeleteCompact

SpecCompact == InitCompact /\ [][NextCompact]_vars

\* ------------------------------------------------- open, by the url's text
\* urls with the text shell:: at the start, at the start and later, later only,
\* and nowhere
OpenUrls ==
    {ShellUrl,
     <<"shell::", "echo ", "shell::", "x">>,
     <<"echo ", "shell::", "x">>,
     WebUrl}

\* result lists of bookmarks 1..n with these urls
OpenLists ==
    {[k \in 1..Len(us) |-> [id |-> k, URL |-> us[k]]] : us \in SeqsUpTo(OpenUrls, MaxBms)}

InitOpen ==
    /\ bms \in OpenLists
    /\ store = [id \in 1..Len(bms) |-> [URL |-> bms[id].URL, rev |-> 0]]
    /\ pc = "AwaitingInput"
    /\ first = <<>>
    /\ act = "none"
    /\ ids = <<>>
    /\ idx = 1
    /\ calls = <<>>
    /\ result = "none"
    /\ child = "none"
    /\ out = <<>>
    /\ numeric = "unused"
    /\ ntok = 0
    /\ argv = SearchArgv
    /\ cands = <<>>
    /\ conn = 0
    /\ fetched = <<>>
    /\ exit = "running"

NextOpen ==
    \/ ReadOpen
    \/ DoSthSkip
    \/ DoSthPanic
    \/ DoSthReturn
    \/ DoSthOpenUrl
    \/ DoSthOpenShell
    \/ ChildExit
    \/ WaitPanics

SpecOpen == InitOpen /\ [][NextOpen]_vars

\* ------------------------------------------------------------- properties
\* the actions that go through do_sth_with_bms
BatchActs == {"open", "delete", "edit"}

\* the ordinals of the invocations so far
Ords == [k \in 1..Len(calls) |-> calls[k].ord]

\* an ordinal do_sth_with_bms resolves
Resolvable(o) == o >= 1 /\ o <= Len(bms)

\* C1: Batch abort.  When the action fails on a bookmark, that invocation is the
\* last one, the dispatcher has returned the failure to process(), and what the
\* earlier invocations did stays done: a bookmark deleted before the failure is
\* not in the Store, a bookmark edited before the failure keeps its update.
BatchAbort ==
    \A k \in 1..Len(calls) :
        calls[k].res = "err" =>
            /\ k = Len(calls)
            /\ result = "err"
            /\ pc = "Done"
            /\ \A j \in 1..(k - 1) :
                /\ calls[j].res = "ok"
                /\ calls[j].act = "delete" => calls[j].bm.id \notin DOMAIN store
                /\ calls[j].act = "edit" => store[calls[j].bm.id].rev >= 1

\* C1 happens: a delete batch failed at its second bookmark with a resolvable
\* ordinal left behind it
BatchAbortWitness ==
    /\ act = "delete"
    /\ result = "err"
    /\ Len(calls) = 2
    /\ idx < Len(ids)
    /\ Resolvable(ids[idx + 1])
    /\ calls[1].bm.id \notin DOMAIN store

NonPositiveIsError ==
    act \in BatchActs =>
        /\ ~(pc = "Panicked" /\ idx <= Len(ids) /\ ids[idx] < 1)
        /\ \A k \in 1..Len(ids) : (k < idx => ids[k] >= 1)

DeleteDescending ==
    act = "delete" =>
        \A j, k \in 1..Len(calls) : j < k => calls[j].bm.id >= calls[k].bm.id

\* C6: Ordinal/id decoupling.  Every invocation is on the element of the result
\* list at the position the ordinal names, whatever the ids are; the Store lacks
\* exactly the ids of the elements deleted and has updates only on ids of
\* elements edited; and no step changes the result list.
OrdinalDecoupling ==
    /\ [](/\ \A k \in 1..Len(calls) :
                /\ Resolvable(calls[k].ord)
                /\ calls[k].bm = bms[calls[k].ord]
          /\ DOMAIN store =
                (1..MaxId) \ {bms[calls[k].ord].id :
                                k \in {j \in 1..Len(calls) :
                                         calls[j].act = "delete" /\ calls[j].res = "ok"}}
          /\ \A id \in DOMAIN store :
                store[id].rev > 0 =>
                    \E k \in 1..Len(calls) :
                        calls[k].act = "edit" /\ bms[calls[k].ord].id = id)
    /\ [][bms' = bms]_vars

\* C6 happens: a bookmark whose id differs from its position was deleted by its
\* position, and the bookmark whose id is that number is still in the Store
OrdinalDecouplingWitness ==
    /\ act = "delete"
    /\ result = "ok"
    /\ Len(calls) = 1
    /\ calls[1].bm.id # calls[1].ord
    /\ calls[1].ord \in DOMAIN store
    /\ \E k \in 1..Len(bms) : bms[k].id = calls[1].ord

\* the ordinals the loop has dealt with: those before idx, and the one at idx
\* while its invocation has not returned Ok
Dealt ==
    IF calls # <<>> /\ calls[Len(calls)].res # "ok"
    THEN SubSeq(ids, 1, idx)
    ELSE SubSeq(ids, 1, idx - 1)

\* C7: Dispatch order.  For open and edit the invocations are, in order and once
\* per occurrence, the resolvable ordinals of the list handed to the dispatcher;
\* every invocation but the last has returned Ok; while a shell command runs the
\* loop is not at an ordinal: process() waits for the command (or has panicked
\* in the wait).
DispatchOrder ==
    act \in {"open", "edit"} =>
        /\ child = "running" =>
            (/\ pc \in {"Waiting", "Panicked"}
             /\ calls # <<>>
             /\ calls[Len(calls)].res \in {"running", "panic"})
        /\ \A k \in 1..(Len(calls) - 1) : calls[k].res = "ok"
        /\ Ords = SelectSeq(Dealt, Resolvable)

\* C7 happens: an open batch with a repeated ordinal acted on a shell bookmark,
\* waited for its command, and then on the next two ordinals in the order given
DispatchOrderWitness ==
    /\ act = "open"
    /\ result = "ok"
    /\ Len(calls) = 3
    /\ IsShell(calls[1].bm.URL)
    /\ calls[1].ord # calls[2].ord
    /\ calls[3].ord = calls[1].ord
    /\ child = "none"

\* C8: Done is terminal and one action at most is taken.  No step leaves Done;
\* while the processor awaits input nothing has been dispatched, printed or
\* changed in the Store; once a dispatch has returned, with success or failure,
\* the processor is Done; the action dispatched and its ordinals never change.
DoneIsTerminal ==
    /\ [][pc # "Done"]_vars
    /\ [](pc = "AwaitingInput" =>
            (act = "none" /\ calls = <<>> /\ out = <<>> /\ store = InitialStore
             /\ result = "none"))
    /\ [](result # "none" => pc = "Done")
    /\ [][act # "none" => (act' = act /\ ids' = ids)]_vars

\* C8 happens: a delete batch has failed and the processor is Done
DoneIsTerminalWitness ==
    /\ pc = "Done"
    /\ act = "delete"
    /\ result = "err"
    /\ first = <<"d">>

\* C9: a line with no token or with the first token q takes the processor from
\* AwaitingInput to Done and dispatches nothing and leaves the Store alone.
QuitFrame ==
    [][(pc = "AwaitingInput" /\ first' \in {<<>>, <<"q">>})
        => (/\ pc' = "Done"
            /\ act' = "none"
            /\ UNCHANGED <<bms, store, ids, idx, calls, result, child, out>>)]_vars

\* C9 happens: a q line was read and nothing was dispatched
QuitFrameWitness ==
    /\ pc = "Done"
    /\ first = <<"q">>
    /\ act = "none"

\* a token with a leading run of digits
LeadingDigits(t) == t # <<>> /\ t[1] \in {"0", "1", "2", "3", "4", "5", "6", "7", "8", "9"}

\* C10: a line whose first token is h, or none of p, d, e, q, h and without
\* leading digits, dispatches nothing, leaves the Store and the result list
\* alone and leaves the processor in AwaitingInput, at every such line.
HelpInvalidFrame ==
    [][(/\ pc = "AwaitingInput"
        /\ first' # <<>>
        /\ \/ first' = <<"h">>
           \/ (first' \notin {<<"p">>, <<"d">>, <<"e">>, <<"q">>} /\ ~LeadingDigits(first')))
        => (/\ pc' = "AwaitingInput"
            /\ act' = "none"
            /\ UNCHANGED <<bms, store, ids, idx, calls, result, child, out>>)]_vars

\* C10 happens: the processor awaits input after an h line or an invalid line
HelpInvalidFrameWitness ==
    /\ pc = "AwaitingInput"
    /\ first \in {<<"h">>, <<"x">>, <<"p", "1">>, <<"-", "1">>}
    /\ act = "none"

\* C11: a line that starts with digits and is all numbers dispatches open on the
\* whole token list, the first token included; a p, d, e or digits line with a
\* token that is no number dispatches nothing, changes nothing and leaves the
\* processor in AwaitingInput.
DigitsOpenOrReprompt ==
    [][pc = "AwaitingInput" =>
        /\ (first' \in {<<"p">>, <<"d">>, <<"e">>} \/ LeadingDigits(first'))
              => numeric' \in {"some", "none"}
        /\ (LeadingDigits(first') /\ numeric' = "some")
              => (/\ act' = "open"
                  /\ pc' = "Dispatching"
                  /\ ntok' >= 1
                  /\ Len(ids') = ntok'
                  /\ ids'[1] = ParseI32(first')
                  /\ idx' = 1)
        /\ numeric' = "none"
              => (/\ pc' = "AwaitingInput"
                  /\ act' = "none"
                  /\ UNCHANGED <<bms, store, ids, idx, calls, result, child, out>>)]_vars

\* C11 happens: a line that starts with digits and has a token that is no number
\* was read and the processor awaits input
DigitsOpenOrRepromptWitness ==
    /\ pc = "AwaitingInput"
    /\ LeadingDigits(first)
    /\ numeric = "none"
    /\ act = "none"

BadIdList ==
    /\ argv.cmd \in {"open", "delete", "update", "edit", "show"}
    /\ ~MainIdsOk
    /\ ~(argv.cmd = "update" /\ ForceMisuse)

\* C13 as stated: a command given a bad id list never opens a Store connection
\* and never makes a Store call: nothing is fetched, loaded, deleted or written.
BadIdsBeforeStore ==
    BadIdList =>
        /\ conn = 0
        /\ fetched = <<>>
        /\ calls = <<>>
        /\ bms = <<>>
        /\ \A id \in DOMAIN store : store[id].rev = 0

\* C14 as stated: a command ended on a bad id list, or an Update ended on --force
\* without tags, has exit status 1; after the forced Update no bookmark is written.
MisuseExitsNonZero ==
    /\ (BadIdList /\ pc = "Exited") => exit = "1"
    /\ (argv.cmd = "update" /\ ForceMisuse /\ pc = "Exited")
          => (exit = "1" /\ \A id \in DOMAIN store : store[id].rev = 0)

\* the key the options of the search select
ModeKey == IF argv.order_desc \/ argv.order_asc THEN "last_update_ts" ELSE "metadata"

\* two records have equal sort keys
KeysEqual(x, y) == ~KeyLess(ModeKey, x, y) /\ ~KeyLess(ModeKey, y, x)

\* where a record stands in the Store's return order
PosInCands(bm) == CHOOSE k \in 1..Len(cands) : cands[k] = bm

\* the search has produced its result list
Searched == argv.cmd = "search" /\ pc # "SearchStart"

\* C15 as stated: in every sort mode two records of the result with equal sort
\* keys stand in the order in which the Store returned them.
SortStable ==
    Searched =>
        \A i, j \in 1..Len(bms) :
            (i < j /\ KeysEqual(bms[i], bms[j])) => PosInCands(bms[i]) < PosInCands(bms[j])

\* the update timestamps of the candidates are all distinct
DistinctTimestamps ==
    \A i, j \in 1..Len(cands) : i # j => cands[i].last_update_ts # cands[j].last_update_ts

\* C16 as stated: with all timestamps distinct the ascending result is the reverse
\* of the descending result, and in every mode sorting the result again gives the
\* same sequence.
SortReverseAndIdempotent ==
    Searched =>
        /\ DistinctTimestamps =>
              SearchResult([argv EXCEPT !.order_desc = FALSE, !.order_asc = TRUE], cands)
                = Reverse(SearchResult([argv EXCEPT !.order_desc = TRUE], cands))
        /\ SearchSort(argv, bms) = bms

\* x may stand before y under the policy the options select
InPolicyOrder(x, y) ==
    IF argv.order_desc THEN x.last_update_ts >= y.last_update_ts
    ELSE IF argv.order_asc THEN x.last_update_ts <= y.last_update_ts
    ELSE ~StrLess(Lowercase(y.metadata), Lowercase(x.metadata))

\* C17: the result holds every filtered candidate once and nothing else, and is
\* ordered by one policy: newest first with the descending option (also when the
\* ascending option is set with it), oldest first with the ascending option
\* alone, and else ascending by the lowercased title.
OneSortPolicy ==
    Searched =>
        /\ Len(bms) = Len(SearchFilter(argv, Bookmarks_new(cands)))
        /\ \A i, j \in 1..Len(bms) : i # j => bms[i] # bms[j]
        /\ \A k \in 1..Len(cands) :
              (\E i \in 1..Len(bms) : bms[i] = cands[k])
                <=> (\E i \in 1..Len(SearchFilter(argv, Bookmarks_new(cands))) :
                        SearchFilter(argv, Bookmarks_new(cands))[i] = cands[k])
        /\ \A i \in 1..(Len(bms) - 1) : InPolicyOrder(bms[i], bms[i + 1])

\* C17 happens: both options were set and records of different age were sorted
OneSortPolicyWitness ==
    /\ Searched
    /\ argv.order_desc /\ argv.order_asc
    /\ Len(bms) >= 2
    /\ bms[1].last_update_ts > bms[Len(bms)].last_update_ts

\* a record of the Store's answer is in the result list
InResult(bm) == \E i \in 1..Len(bms) : bms[i] = bm

\* the tags the all clause asks for: those of the all option and of the prefix
AllClause == normalize_tag_string(argv.tags_all) \cup normalize_tag_string(argv.tags_prefix)

\* the five clauses of the table, each true when its option is absent
PassesClauses(tags) ==
    /\ argv.tags_exact.some => tags = normalize_tag_string(argv.tags_exact)
    /\ AllClause \subseteq tags
    /\ argv.tags_all_not.some => ~(normalize_tag_string(argv.tags_all_not) \subseteq tags)
    /\ argv.tags_any.some => tags \cap normalize_tag_string(argv.tags_any) # {}
    /\ argv.tags_any_not.some => tags \cap normalize_tag_string(argv.tags_any_not) = {}

\* no tag option is given
NoTagOptions ==
    \A o \in {argv.tags_exact, argv.tags_all, argv.tags_all_not, argv.tags_any,
              argv.tags_any_not, argv.tags_prefix} : ~o.some

\* C18: a record of the Store is in the result iff it matches the text and passes
\* every clause that is present; with no tag option every record matching the
\* text is in the result; with a tag both in all and in anyNot the result is empty.
TagClausesConjoined ==
    Searched =>
        /\ \A k \in 1..Len(cands) :
              InResult(cands[k]) <=> (cands[k].hit /\ PassesClauses(cands[k].tags))
        /\ NoTagOptions => \A k \in 1..Len(cands) : InResult(cands[k]) <=> cands[k].hit
        /\ (normalize_tag_string(argv.tags_all) \cap normalize_tag_string(argv.tags_any_not) # {})
              => bms = <<>>

\* C18 happens: a search with an any and an allNot option, different ones, let
\* some of the records matching the text through and held others back
TagClausesConjoinedWitness ==
    /\ Searched
    /\ argv.tags_any.some /\ argv.tags_all_not.some
    /\ argv.tags_any # argv.tags_all_not
    /\ bms # <<>>
    /\ \E k \in 1..Len(cands) : cands[k].hit /\ ~InResult(cands[k])

\* C19: with a prefix the tags of the all clause are those of the all option and
\* those of the prefix together (those of the prefix when there is no all
\* option); every record of the result still passes the other four clauses as
\* given; and the result is the one of the search with the union as its all
\* option and no prefix.
PrefixJoinsAll ==
    (Searched /\ argv.tags_prefix.some) =>
        /\ normalize_tag_string(Some(tags_all(argv))) = AllClause
        /\ ~argv.tags_all.some =>
              normalize_tag_string(Some(tags_all(argv))) = normalize_tag_string(argv.tags_prefix)
        /\ \A i \in 1..Len(bms) :
              matches(bms[i].tags, None, argv.tags_any, argv.tags_all_not,
                      argv.tags_any_not, argv.tags_exact)
        /\ \A o \in TagOpts :
              (o.some /\ normalize_tag_string(o) = AllClause)
                => bms = SearchResult([argv EXCEPT !.tags_all = o, !.tags_prefix = None], cands)

\* C19 happens: a search with an all option and a prefix that name different
\* tags has a result
PrefixJoinsAllWitness ==
    /\ Searched
    /\ argv.tags_prefix.some /\ argv.tags_all.some
    /\ normalize_tag_string(argv.tags_all) \cap normalize_tag_string(argv.tags_prefix) = {}
    /\ bms # <<>>

\* C20 as stated: a shell command that ended with a status other than 0 made
\* its open fail, and that open is the last of the batch; no failure to wait on
\* the command and no failure of the platform opener ends in a panic.
ExternalFailureSurfaced ==
    /\ \A k \in 1..Len(calls) :
          (calls[k].act = "open" /\ calls[k].status \notin {"none", "0"})
            => (calls[k].res = "err" /\ k = Len(calls) /\ result = "err")
    /\ \A k \in 1..Len(calls) : calls[k].act = "open" => calls[k].res # "panic"
    /\ \A k \in 1..Len(fetched) : fetched[k].opened = "fail" => pc # "Panicked"

\* the fields of a bookmark as the Store holds them
Fields(r) == [URL |-> r.URL, metadata |-> r.metadata, tags |-> r.tags, desc |-> r.desc]

\* C21 as stated: an edit that returned Ok has written, under the id of the
\* edited bookmark, the first four lines that are no comments; an edit whose
\* editor output has fewer than four such lines has returned an error, is the
\* last invocation of the batch, and the process has not panicked.
EditShortIsParseError ==
    \A k \in 1..Len(calls) :
        calls[k].act = "edit" =>
            /\ (k = Len(calls) /\ calls[k].res = "ok")
                  => (/\ calls[k].bm.id \in DOMAIN store
                      /\ Fields(store[calls[k].bm.id])
                           = Fields(new_bm(calls[k].bm, calls[k].text)))
            /\ ~ParsesToBookmark(calls[k].text)
                  => (/\ calls[k].res = "err"
                      /\ k = Len(calls)
                      /\ pc # "Panicked")

\* C26 as stated: an edit that returned Ok after the editor left the template
\* as it was has written back the url, title, tags and description of the
\* bookmark, and an unchanged template never makes the edit panic.
EditRoundTrip ==
    \A k \in 1..Len(calls) :
        (calls[k].act = "edit" /\ calls[k].text = template(calls[k].bm)) =>
            /\ calls[k].res # "panic"
            /\ (k = Len(calls) /\ calls[k].res = "ok")
                  => Fields(store[calls[k].bm.id]) = Fields(calls[k].bm)

\* the step is an invocation of do_edit that has returned
EditReturned ==
    /\ Len(calls') = Len(calls) + 1
    /\ calls'[Len(calls')].act = "edit"

\* C27 as stated: an edit that returns a failure leaves the Store as it was; an
\* edit that returns success has written the record once and temp.txt is gone.
EditFailureLeavesRecord ==
    [][EditReturned =>
         /\ calls'[Len(calls')].res = "err" => store' = store
         /\ calls'[Len(calls')].res = "ok" =>
               (/\ store'[calls'[Len(calls')].bm.id].rev
                     = store[calls'[Len(calls')].bm.id].rev + 1
                /\ calls'[Len(calls')].temp = "removed")]_vars

\* C22 as stated: the Delete and the Edit command act on exactly the bookmarks
\* whose Store id is in the id list of the command line: every bookmark an
\* action was called on carries the id that was given for it, whatever ids the
\* Store holds, and never is acted on because its position in the loaded list
\* equals the number given.
CommandActsOnStoreIds ==
    argv.cmd \in {"delete", "edit"} =>
        \A k \in 1..Len(calls) : calls[k].bm.id = calls[k].ord

\* the records of the Store, by the id they had when the session began
Remaining == {store[k].was : k \in DOMAIN store}

\* the ids of the batch are valid ordinals of the result list, each given once
DistinctValidOrdinals ==
    /\ \A k \in 1..Len(ids) : ids[k] >= 1 /\ ids[k] <= Len(bms)
    /\ \A j, k \in 1..Len(ids) : j # k => ids[j] # ids[k]

\* C23 as stated: on a Store that compacts its ids on a delete, a delete batch
\* over distinct valid ordinals, in any order, that ends without a failure has
\* removed exactly the bookmarks the ordinals denoted in the result list, and no
\* other bookmark.
CompactDeleteRemovesDenoted ==
    (act = "delete" /\ pc = "Done" /\ result = "ok" /\ DistinctValidOrdinals) =>
        Remaining = (1..MaxId) \ {bms[ids[k]].id : k \in 1..Len(ids)}

\* C24 as stated, for the first token of a line: tokenization splits on every
\* whitespace character, tabs included, and removes commas and upper case, so
\* the token process() looks at first holds no whitespace, no comma and no
\* upper-case letter.
FirstTokenClean ==
    \A k \in 1..Len(first) :
        /\ ~IsWhitespace(first[k])
        /\ first[k] # ","
        /\ ToLower(first[k]) = first[k]

\* C25 as stated: open of a url that begins with shell:: runs as the shell
\* command exactly what follows that leading prefix, a later shell:: in the
\* command left as it is; a url that does not begin with shell:: is never run as
\* a shell command (the call has no command), even with shell:: inside it.
ShellRunsRemainder ==
    \A k \in 1..Len(calls) :
        calls[k].act = "open" =>
            /\ (IsShell(calls[k].bm.URL) /\ calls[k].res # "err")
                  => calls[k].cmd = Tail(calls[k].bm.URL)
            /\ ~IsShell(calls[k].bm.URL) => calls[k].cmd = <<>>

====
